---- MODULE Spec2Model ----
(***************************************************************************)
(* A model of pyipmi/sensor.py (class Sensor): the device SDR repository   *)
(* retrieval (reserve_device_sdr_repository, _get_device_sdr_chunk,        *)
(* get_device_sdr, device_sdr_entries) and the sensor reading / threshold  *)
(* operations.  One step of the SDR machine is one request/response        *)
(* exchange through send_message together with all the code that runs      *)
(* until the next request is about to be sent, or until the call returns   *)
(* or raises.                                                              *)
(***************************************************************************)
EXTENDS Integers, Sequences, FiniteSets, TLC

VARIABLES
    pc,               \* position: idle | reserve | chunk | yield | done
    op,               \* the public operation in progress
    reservation_id,   \* local of get_device_sdr / device_sdr_entries
    record_id,        \* local of get_device_sdr / device_sdr_entries
    next_record_id,   \* local of get_device_sdr
    data,             \* local of get_device_sdr: bytes of the last chunk returned
    record_length,    \* local of get_device_sdr
    record_data,      \* local of get_device_sdr: the raw record buffer
    offset,           \* local of get_device_sdr
    length,           \* local of get_device_sdr
    retry,            \* local of get_device_sdr (assembly loop budget)
    max_req_len,      \* self.max_req_len
    req,              \* the GetDeviceSdr request of _get_device_sdr_chunk
    chunk_retry,      \* local `retry` of _get_device_sdr_chunk
    chunk_caller,     \* which call site runs _get_device_sdr_chunk: header | data
    chunk_calls,      \* calls of _get_device_sdr_chunk line 173 has made in this get_device_sdr
    reserve_caller,   \* which call site runs reserve_device_sdr_repository
    s,                \* the decoded record get_device_sdr returned
    result,           \* how the public operation ended
    yielded,          \* the records device_sdr_entries has yielded so far
    sent,             \* GetDeviceSdr requests sent by the current chunk fetch
    last_req,         \* the last request handed to send_message
    last_cc,          \* the completion code of the last response
    chunk_exc,        \* how the last _get_device_sdr_chunk call ended
    slept,            \* the last time.sleep argument, in tenths of a second
    granted,          \* controller: the reservation id it granted last
    repo,             \* controller: the device SDR repository
    ctrl_cap,         \* controller: most bytes it serves per request (0: any)
    sensor_call,      \* the sensor operation called last, with its inputs
    sensor_req,       \* the request that operation sent
    sensor_ret        \* what that operation returned or raised

sdr_vars == <<pc, op, reservation_id, record_id, next_record_id, data,
              record_length, record_data, offset, length, retry, max_req_len,
              req, chunk_retry, chunk_caller, chunk_calls, reserve_caller, s,
              result, yielded, sent, last_req, last_cc, chunk_exc, slept,
              granted, repo, ctrl_cap>>

sensor_vars == <<sensor_call, sensor_req, sensor_ret>>

vars == <<sdr_vars, sensor_vars>>

(***************************************************************************)
(* Program constants.                                                      *)
(***************************************************************************)
HEADER_LENGTH == 5
CHUNK_RETRIES == 5
MAX_REQ_LEN == 20
ASSEMBLY_RETRIES == 20
SHRINK_STEP == 4
FIRST_RECORD_ID == 0
LAST_RECORD_ID == 65535

\* Completion codes the code branches on, by the names it uses for them.
CC_OK == "CC_OK"
CC_RES_CANCELED == "CC_RES_CANCELED"
CC_TIMEOUT == "CC_TIMEOUT"
CC_RESP_COULD_NOT_BE_PRV == "CC_RESP_COULD_NOT_BE_PRV"
CC_CANT_RET_NUM_REQ_BYTES == "CC_CANT_RET_NUM_REQ_BYTES"
\* Stands for every completion code the code does not name.
CC_OTHER == "CC_OTHER"

(***************************************************************************)
(* Bounds of the model.                                                    *)
(***************************************************************************)
MaxRecords == 2        \* records in the repository
MaxPayload == 27       \* longest record payload under arbitrary completion codes
MaxCapPayload == 46    \* longest record payload under the length-capped controller
MaxCap == 22           \* largest chunk cap of the length-capped controller
MaxReservations == 3   \* reservations the controller grants in one behaviour
MaxOverrun == 2        \* how far below 0 retry (and max_req_len, in shrink steps) is followed
MaxStalled == 16       \* the same, under the controller that only serves or refuses

(***************************************************************************)
(* The controller: the repository it holds and the bytes it returns.       *)
(***************************************************************************)
SDR_VERSION == 81
SDR_TYPE == 1

PayloadByte(id, i) == (37 * i + id) % 256

\* A record as the controller stores it: the 5 byte header (record id, little
\* endian, version, type, payload length) followed by the payload.
RecordBytes(id, payload_length) ==
    <<id % 256, id \div 256, SDR_VERSION, SDR_TYPE, payload_length>>
        \o [i \in 1..payload_length |-> PayloadByte(id, i)]

\* The bytes of `bytes` from offset `off` (0-based), at most `len` of them.
Slice(bytes, off, len) ==
    LET last == IF off + len > Len(bytes) THEN Len(bytes) ELSE off + len
    IN  IF len <= 0 \/ off >= Len(bytes) THEN <<>>
        ELSE [i \in 1..(last - off) |-> bytes[off + i]]

\* Repositories of n records 0 .. n-1, each naming its successor, the last
\* one naming LAST_RECORD_ID.  chunk_next_id is the next record id the
\* controller reports with a fetch at an offset other than 0.
ChainNext(n, id) == IF id = n - 1 THEN LAST_RECORD_ID ELSE id + 1

Repository(n, plen) ==
    [id \in 0..(n - 1) |->
        [payload_length |-> plen[id],
         next_id        |-> ChainNext(n, id),
         chunk_next_id  |-> ChainNext(n, id)]]

PayloadLengths == {0, 3, MaxPayload}

Repositories ==
    UNION {{Repository(n, plen) : plen \in [0..(n - 1) -> PayloadLengths]} :
           n \in 1..MaxRecords}

CapRepositories ==
    {Repository(n, [id \in 0..(n - 1) |-> p]) :
        n \in 1..MaxRecords, p \in 0..MaxCapPayload}

\* Repositories of records of one payload length in which the controller
\* reports, with a fetch of record d at an offset other than 0, another next
\* record id than with the fetch at offset 0 (d = n: no record is so).
DriftNext(n, id) == IF id = n - 1 THEN n + 1 ELSE LAST_RECORD_ID

DriftRepository(n, p, d) ==
    [id \in 0..(n - 1) |->
        [payload_length |-> p,
         next_id        |-> ChainNext(n, id),
         chunk_next_id  |-> IF id = d THEN DriftNext(n, id)
                            ELSE ChainNext(n, id)]]

DriftRepositories ==
    UNION {{DriftRepository(n, p, d) : p \in PayloadLengths, d \in 0..n} :
           n \in 1..MaxRecords}

StoredRecord(rp, id) == RecordBytes(id, rp[id].payload_length)

\* What the controller puts in a successful GetDeviceSdr response.
RspNextRecordId(rp, rq) ==
    IF rq.offset = 0 THEN rp[rq.record_id].next_id
    ELSE rp[rq.record_id].chunk_next_id

RspRecordData(rp, rq) ==
    Slice(StoredRecord(rp, rq.record_id), rq.offset, rq.length)

Codes == {CC_OK, CC_RES_CANCELED, CC_TIMEOUT, CC_RESP_COULD_NOT_BE_PRV,
          CC_CANT_RET_NUM_REQ_BYTES, CC_OTHER}

\* The completion codes the controller may answer a GetDeviceSdr request
\* with.  With a chunk cap it serves a request of at most ctrl_cap bytes and
\* refuses a longer one; without one it may answer with any code.  Success
\* needs the record to exist; a reservation is canceled only while the
\* controller can still grant another.
GetDeviceSdrCodes(cap, rp, g, rq) ==
    IF cap > 0
    THEN IF rq.length > cap THEN {CC_CANT_RET_NUM_REQ_BYTES}
         ELSE IF rq.record_id \in DOMAIN rp THEN {CC_OK} ELSE {CC_OTHER}
    ELSE {c \in Codes :
            /\ c = CC_OK => rq.record_id \in DOMAIN rp
            /\ c = CC_RES_CANCELED => g < MaxReservations}

ReserveCodes(cap) ==
    IF cap > 0 THEN {CC_OK} ELSE {CC_OK, CC_TIMEOUT, CC_OTHER}

(***************************************************************************)
(* Values of the program.                                                  *)
(***************************************************************************)
NoException == [kind |-> "none", cc |-> CC_OK, raised_by |-> "none"]
Returned == [kind |-> "returned", cc |-> CC_OK, raised_by |-> "none"]
RetryError(fn) == [kind |-> "RetryError", cc |-> CC_OK, raised_by |-> fn]
CompletionCodeError(c, fn) ==
    [kind |-> "CompletionCodeError", cc |-> c, raised_by |-> fn]
\* Line 181 evaluates a name that is bound nowhere.
NameError(fn) == [kind |-> "NameError", cc |-> CC_OK, raised_by |-> fn]

NoRequest ==
    [name |-> "none", reservation_id |-> 0, record_id |-> 0,
     offset |-> 0, length |-> 0]
NoRecord == [data |-> <<>>, next_id |-> 0]

\* ByteBuffer.pop_unsigned_int(2) and pop_unsigned_int(1) on the header bytes.
HeaderRecordId(bytes) == bytes[1] + 256 * bytes[2]
HeaderPayloadLength(bytes) == bytes[5]

\* sdr.create_sdr(record_data, next_record_id), as far as this file uses it.
create_sdr(bytes, nid) == [data |-> bytes, next_id |-> nid]

\* What a yielded record shows of itself: its id, its next id, its length.
Summary(rec) ==
    [id |-> HeaderRecordId(rec.data), next_id |-> rec.next_id,
     len |-> Len(rec.data)]

(***************************************************************************)
(* The program state as one record, and the code as functions on it.       *)
(***************************************************************************)
Cur ==
    [pc |-> pc, op |-> op, reservation_id |-> reservation_id,
     record_id |-> record_id, next_record_id |-> next_record_id,
     data |-> data, record_length |-> record_length,
     record_data |-> record_data, offset |-> offset, length |-> length,
     retry |-> retry, max_req_len |-> max_req_len, req |-> req,
     chunk_retry |-> chunk_retry, chunk_caller |-> chunk_caller,
     chunk_calls |-> chunk_calls,
     reserve_caller |-> reserve_caller, s |-> s, result |-> result,
     yielded |-> yielded, sent |-> sent, last_req |-> last_req,
     last_cc |-> last_cc, chunk_exc |-> chunk_exc, slept |-> slept,
     granted |-> granted]

Becomes(n) ==
    /\ pc' = n.pc
    /\ op' = n.op
    /\ reservation_id' = n.reservation_id
    /\ record_id' = n.record_id
    /\ next_record_id' = n.next_record_id
    /\ data' = n.data
    /\ record_length' = n.record_length
    /\ record_data' = n.record_data
    /\ offset' = n.offset
    /\ length' = n.length
    /\ retry' = n.retry
    /\ max_req_len' = n.max_req_len
    /\ req' = n.req
    /\ chunk_retry' = n.chunk_retry
    /\ chunk_caller' = n.chunk_caller
    /\ chunk_calls' = n.chunk_calls
    /\ reserve_caller' = n.reserve_caller
    /\ s' = n.s
    /\ result' = n.result
    /\ yielded' = n.yielded
    /\ sent' = n.sent
    /\ last_req' = n.last_req
    /\ last_cc' = n.last_cc
    /\ chunk_exc' = n.chunk_exc
    /\ slept' = n.slept
    /\ granted' = n.granted

(***************************************************************************)
(* get_device_sdr, _get_device_sdr_chunk and device_sdr_entries.           *)
(***************************************************************************)
\* An exception leaves the public operation.
Raise(st, exc) == [st EXCEPT !.pc = "done", !.result = exc]

\* get_device_sdr, lines 168-170: the length of the next chunk request.
RequestLength(max, off, reclen) ==
    IF off + max > reclen THEN reclen - off ELSE max

\* get_device_sdr, line 188, and the caller taking the record: the caller of
\* get_device_sdr has its result; device_sdr_entries yields it (line 199).
ReturnRecord(st) ==
    LET rec == create_sdr(st.record_data, st.next_record_id)
    IN  IF st.op = "get_device_sdr"
        THEN [st EXCEPT !.s = rec, !.pc = "done", !.result = Returned]
        ELSE [st EXCEPT !.s = rec, !.pc = "yield",
                        !.yielded = Append(@, Summary(rec))]

RECURSIVE ChunkLoopHead(_)

\* _get_device_sdr_chunk, lines 105-111, and the first pass of its loop.
EnterChunk(st, resv, rid, off, len, caller) ==
    ChunkLoopHead(
        [st EXCEPT !.req = [name |-> "GetDeviceSdr", reservation_id |-> resv,
                            record_id |-> rid, offset |-> off, length |-> len],
                   !.chunk_retry = CHUNK_RETRIES,
                   !.chunk_caller = caller,
                   !.sent = 0])

\* get_device_sdr, lines 163-173: the head of the assembly loop, up to the
\* call of _get_device_sdr_chunk.
AssemblyLoopHead(st) ==
    LET r == st.retry - 1
        len == RequestLength(st.max_req_len, st.offset, st.record_length)
    IN  IF r = 0
        THEN Raise([st EXCEPT !.retry = r], RetryError("get_device_sdr"))
        ELSE EnterChunk([st EXCEPT !.retry = r, !.length = len,
                                   !.chunk_calls = @ + 1],
                        st.reservation_id, st.record_id, st.offset, len, "data")

\* get_device_sdr, lines 183-186: append `data`, whatever it holds now, and
\* leave the loop once the buffer is long enough.
AppendChunk(st) ==
    LET buf == st.record_data \o st.data
        st1 == [st EXCEPT !.record_data = buf, !.offset = Len(buf)]
    IN  IF Len(buf) >= st.record_length THEN ReturnRecord(st1)
        ELSE AssemblyLoopHead(st1)

\* get_device_sdr, lines 174-181: the handler of a CompletionCodeError of the
\* chunk fetch.  After the handler the code goes on at line 183.
ExceptHandler(st, exc) ==
    IF exc.cc = CC_CANT_RET_NUM_REQ_BYTES
    THEN LET m == st.max_req_len - SHRINK_STEP
         IN  AppendChunk([st EXCEPT !.max_req_len = m,
                                    !.retry = IF m <= 0 THEN 0 ELSE @])
    ELSE Raise(st, NameError("get_device_sdr"))

\* ParseHeader with line 159 setting self.max_req_len only while it is unset.
ParseHeaderKeepsCap(st) ==
    AssemblyLoopHead(
        [st EXCEPT !.record_id = HeaderRecordId(st.data),
                   !.record_length = HeaderPayloadLength(st.data) + HEADER_LENGTH,
                   !.record_data = st.data,
                   !.offset = Len(st.data),
                   !.max_req_len = IF @ = 0 THEN MAX_REQ_LEN ELSE @,
                   !.retry = ASSEMBLY_RETRIES])

\* get_device_sdr, lines 150-160: the header is parsed, the buffer and the
\* budgets are set up.
ParseHeader(st) ==
    AssemblyLoopHead(
        [st EXCEPT !.record_id = HeaderRecordId(st.data),
                   !.record_length = HeaderPayloadLength(st.data) + HEADER_LENGTH,
                   !.record_data = st.data,
                   !.offset = Len(st.data),
                   !.max_req_len = MAX_REQ_LEN,
                   !.retry = ASSEMBLY_RETRIES])

\* _get_device_sdr_chunk raises: at line 148 the exception leaves
\* get_device_sdr, at line 173 only a CompletionCodeError is caught.
ChunkRaises(st, exc) ==
    LET st1 == [st EXCEPT !.chunk_exc = exc]
    IN  IF st.chunk_caller = "data" /\ exc.kind = "CompletionCodeError"
        THEN ExceptHandler(st1, exc)
        ELSE Raise(st1, exc)

\* ChunkReturns with line 173 binding only `data`: next_record_id keeps the
\* value of the header fetch.
ChunkReturnsKeepsHeaderNextId(st, nid, bytes) ==
    LET st1 == [st EXCEPT !.chunk_exc = Returned,
                          !.next_record_id =
                              IF st.chunk_caller = "header" THEN nid ELSE @,
                          !.data = bytes]
    IN  IF st.chunk_caller = "header" THEN ParseHeader(st1)
        ELSE AppendChunk(st1)

\* _get_device_sdr_chunk returns (line 133) to line 148 or to line 173.
ChunkReturns(st, nid, bytes) ==
    LET st1 == [st EXCEPT !.chunk_exc = Returned,
                          !.next_record_id = nid, !.data = bytes]
    IN  IF st.chunk_caller = "header" THEN ParseHeader(st1)
        ELSE AppendChunk(st1)

\* ChunkLoopHead with the budget test off by one (retry < 0 for retry == 0).
ChunkLoopHeadOffByOne(st) ==
    LET r == st.chunk_retry - 1
    IN  IF r < 0
        THEN ChunkRaises([st EXCEPT !.chunk_retry = r],
                         RetryError("_get_device_sdr_chunk"))
        ELSE [st EXCEPT !.chunk_retry = r, !.pc = "chunk"]

\* ChunkLoopHead with line 116 raising the last completion code instead of
\* RetryError.
ChunkLoopHeadRaisesLastCode(st) ==
    LET r == st.chunk_retry - 1
    IN  IF r = 0
        THEN ChunkRaises([st EXCEPT !.chunk_retry = r],
                         CompletionCodeError(st.last_cc, "_get_device_sdr_chunk"))
        ELSE [st EXCEPT !.chunk_retry = r, !.pc = "chunk"]

\* _get_device_sdr_chunk, lines 113-116: the head of the retry loop.
ChunkLoopHead(st) ==
    LET r == st.chunk_retry - 1
    IN  IF r = 0
        THEN ChunkRaises([st EXCEPT !.chunk_retry = r],
                         RetryError("_get_device_sdr_chunk"))
        ELSE [st EXCEPT !.chunk_retry = r, !.pc = "chunk"]

\* ChunkResponse with line 131 missing: a code the loop does not name is
\* waited out and the request sent again, like a timeout.
ChunkResponseRetriesOther(st, cc, nid, bytes) ==
    LET st1 == [st EXCEPT !.sent = @ + 1, !.last_req = st.req, !.last_cc = cc]
    IN  CASE cc = CC_OK -> ChunkReturns(st1, nid, bytes)
          [] cc = CC_RES_CANCELED ->
                [st1 EXCEPT !.pc = "reserve", !.reserve_caller = "chunk"]
          [] cc = CC_RESP_COULD_NOT_BE_PRV ->
                ChunkLoopHead([st1 EXCEPT !.slept = st.chunk_retry])
          [] OTHER -> ChunkLoopHead([st1 EXCEPT !.slept = 1])

\* ChunkResponse with line 128 sleeping the fixed 0.1 s of lines 122 and 125.
ChunkResponseFixedWait(st, cc, nid, bytes) ==
    LET st1 == [st EXCEPT !.sent = @ + 1, !.last_req = st.req, !.last_cc = cc]
    IN  CASE cc = CC_OK -> ChunkReturns(st1, nid, bytes)
          [] cc = CC_RES_CANCELED ->
                [st1 EXCEPT !.pc = "reserve", !.reserve_caller = "chunk"]
          [] cc = CC_TIMEOUT -> ChunkLoopHead([st1 EXCEPT !.slept = 1])
          [] cc = CC_RESP_COULD_NOT_BE_PRV ->
                ChunkLoopHead([st1 EXCEPT !.slept = 1])
          [] OTHER ->
                ChunkRaises(st1, CompletionCodeError(cc, "_get_device_sdr_chunk"))

\* _get_device_sdr_chunk, lines 117-131: the request is sent and the
\* response, with completion code cc, next record id nid and bytes, handled.
ChunkResponse(st, cc, nid, bytes) ==
    LET st1 == [st EXCEPT !.sent = @ + 1, !.last_req = st.req, !.last_cc = cc]
    IN  CASE cc = CC_OK -> ChunkReturns(st1, nid, bytes)
          [] cc = CC_RES_CANCELED ->
                [st1 EXCEPT !.pc = "reserve", !.reserve_caller = "chunk"]
          [] cc = CC_TIMEOUT -> ChunkLoopHead([st1 EXCEPT !.slept = 1])
          [] cc = CC_RESP_COULD_NOT_BE_PRV ->
                ChunkLoopHead([st1 EXCEPT !.slept = st.chunk_retry])
          [] OTHER ->
                ChunkRaises(st1, CompletionCodeError(cc, "_get_device_sdr_chunk"))

\* get_device_sdr entered with a reservation id (lines 144 and 148).
EnterGetDeviceSdr(st, rid, resv) ==
    EnterChunk([st EXCEPT !.reservation_id = resv, !.record_id = rid,
                          !.next_record_id = 0, !.data = <<>>,
                          !.record_length = 0, !.record_data = <<>>,
                          !.offset = 0, !.length = 0, !.retry = 0,
                          !.chunk_calls = 0],
               resv, rid, 0, HEADER_LENGTH, "header")

\* ReserveResponse with line 121 calling reserve_device_sdr_repository()
\* without storing the id it returns in the request.
ReserveResponseIdDropped(st, cc, id) ==
    LET st1 == [st EXCEPT !.last_req = [NoRequest EXCEPT
                                          !.name = "ReserveDeviceSdrRepository"],
                          !.last_cc = cc,
                          !.granted = IF cc = CC_OK THEN id ELSE @]
        exc == CompletionCodeError(cc, "reserve_device_sdr_repository")
    IN  IF cc # CC_OK
        THEN IF st.reserve_caller = "chunk" THEN ChunkRaises(st1, exc)
             ELSE Raise(st1, exc)
        ELSE CASE st.reserve_caller = "chunk" ->
                    ChunkLoopHead([st1 EXCEPT !.slept = 1])
               [] st.reserve_caller = "get_device_sdr" ->
                    EnterGetDeviceSdr(st1, st.record_id, id)
               [] OTHER ->
                    EnterGetDeviceSdr(st1, FIRST_RECORD_ID, id)

\* reserve_device_sdr_repository, lines 100-103, and what its caller does
\* with the reservation id (lines 121-123, 145, 194-198) or the exception.
ReserveResponse(st, cc, id) ==
    LET st1 == [st EXCEPT !.last_req = [NoRequest EXCEPT
                                          !.name = "ReserveDeviceSdrRepository"],
                          !.last_cc = cc,
                          !.granted = IF cc = CC_OK THEN id ELSE @]
        exc == CompletionCodeError(cc, "reserve_device_sdr_repository")
    IN  IF cc # CC_OK
        THEN IF st.reserve_caller = "chunk" THEN ChunkRaises(st1, exc)
             ELSE Raise(st1, exc)
        ELSE CASE st.reserve_caller = "chunk" ->
                    ChunkLoopHead([st1 EXCEPT !.req.reservation_id = id,
                                              !.slept = 1])
               [] st.reserve_caller = "get_device_sdr" ->
                    EnterGetDeviceSdr(st1, st.record_id, id)
               [] OTHER ->
                    EnterGetDeviceSdr(st1, FIRST_RECORD_ID, id)

\* ResumeEntries without the test of line 200.
ResumeEntriesPastEnd(st) ==
    EnterGetDeviceSdr(st, st.s.next_id, st.reservation_id)

\* ResumeEntries with line 202 counting record ids up instead of following
\* s.next_id.
ResumeEntriesByIncrement(st) ==
    IF st.s.next_id = LAST_RECORD_ID
    THEN [st EXCEPT !.pc = "done", !.result = Returned]
    ELSE EnterGetDeviceSdr(st, st.record_id + 1, st.reservation_id)

\* device_sdr_entries, lines 200-202 and 198: the generator is resumed.
ResumeEntries(st) ==
    IF st.s.next_id = LAST_RECORD_ID
    THEN [st EXCEPT !.pc = "done", !.result = Returned]
    ELSE EnterGetDeviceSdr(st, st.s.next_id, st.reservation_id)

(***************************************************************************)
(* The state after construction and the steps of the SDR machine.          *)
(***************************************************************************)
NoSensorCall == [name |-> "none"]

InitSensor ==
    /\ sensor_call = NoSensorCall
    /\ sensor_req = NoSensorCall
    /\ sensor_ret = NoSensorCall

\* A Sensor object has no attribute of its own before its first call:
\* max_req_len is set by get_device_sdr (line 159) before it is read.
InitSdr ==
    /\ pc = "idle"
    /\ op = "none"
    /\ reservation_id = 0
    /\ record_id = 0
    /\ next_record_id = 0
    /\ data = <<>>
    /\ record_length = 0
    /\ record_data = <<>>
    /\ offset = 0
    /\ length = 0
    /\ retry = 0
    /\ max_req_len = 0
    /\ req = NoRequest
    /\ chunk_retry = 0
    /\ chunk_caller = "none"
    /\ chunk_calls = 0
    /\ reserve_caller = "none"
    /\ s = NoRecord
    /\ result = NoException
    /\ yielded = <<>>
    /\ sent = 0
    /\ last_req = NoRequest
    /\ last_cc = CC_OK
    /\ chunk_exc = NoException
    /\ slept = 0
    /\ granted = 0

\* get_device_sdr(record_id) is called without a reservation id (line 144).
CallGetDeviceSdr ==
    /\ pc = "idle"
    /\ \E rid \in DOMAIN repo :
          Becomes([Cur EXCEPT !.op = "get_device_sdr", !.record_id = rid,
                              !.pc = "reserve",
                              !.reserve_caller = "get_device_sdr"])
    /\ UNCHANGED <<repo, ctrl_cap, sensor_vars>>

\* device_sdr_entries() is called and asked for its first record (line 194).
CallDeviceSdrEntries ==
    /\ pc = "idle"
    /\ Becomes([Cur EXCEPT !.op = "device_sdr_entries", !.pc = "reserve",
                           !.reserve_caller = "device_sdr_entries"])
    /\ UNCHANGED <<repo, ctrl_cap, sensor_vars>>

\* One ReserveDeviceSdrRepository exchange (line 101).
ReserveDeviceSdrRepository ==
    /\ pc = "reserve"
    /\ \E cc \in ReserveCodes(ctrl_cap) :
          Becomes(ReserveResponse(Cur, cc, granted + 1))
    /\ UNCHANGED <<repo, ctrl_cap, sensor_vars>>

\* One GetDeviceSdr exchange (line 117).
GetDeviceSdrChunk ==
    /\ pc = "chunk"
    /\ chunk_caller = "data" =>
          retry >= -MaxOverrun /\ max_req_len >= -(MaxOverrun * SHRINK_STEP)
    /\ \E cc \in GetDeviceSdrCodes(ctrl_cap, repo, granted, req) :
          LET nid == IF cc = CC_OK THEN RspNextRecordId(repo, req) ELSE 0
              bytes == IF cc = CC_OK THEN RspRecordData(repo, req) ELSE <<>>
          IN  Becomes(ChunkResponse(Cur, cc, nid, bytes))
    /\ UNCHANGED <<repo, ctrl_cap, sensor_vars>>

\* The consumer of device_sdr_entries asks for the next record (line 200).
NextEntry ==
    /\ pc = "yield"
    /\ Becomes(ResumeEntries(Cur))
    /\ UNCHANGED <<repo, ctrl_cap, sensor_vars>>

Next ==
    \/ CallGetDeviceSdr
    \/ CallDeviceSdrEntries
    \/ ReserveDeviceSdrRepository
    \/ GetDeviceSdrChunk
    \/ NextEntry

\* The controller answers with any completion code.
Init ==
    /\ InitSdr
    /\ InitSensor
    /\ repo \in Repositories
    /\ ctrl_cap = 0

Spec == Init /\ [][Next]_vars

\* The controller serves at most ctrl_cap bytes per request and refuses a
\* longer request with "cannot return requested number of bytes".
CapInit ==
    /\ InitSdr
    /\ InitSensor
    /\ repo \in CapRepositories
    /\ ctrl_cap \in 4..MaxCap

CapSpec == CapInit /\ [][Next]_vars

\* The controller answers with any completion code and may report another
\* next record id at an offset other than 0.
NextIdInit ==
    /\ InitSdr
    /\ InitSensor
    /\ repo \in DriftRepositories
    /\ ctrl_cap = 0

NextIdSpec == NextIdInit /\ [][Next]_vars

\* One GetDeviceSdr exchange (line 117) with a controller that either serves
\* the request or refuses it with "cannot return requested number of bytes".
GetDeviceSdrChunkRefusing ==
    /\ pc = "chunk"
    /\ chunk_caller = "data" =>
          retry >= -MaxStalled /\ max_req_len >= -(MaxStalled * SHRINK_STEP)
    /\ \E cc \in {CC_OK, CC_CANT_RET_NUM_REQ_BYTES} :
          LET nid == IF cc = CC_OK THEN RspNextRecordId(repo, req) ELSE 0
              bytes == IF cc = CC_OK THEN RspRecordData(repo, req) ELSE <<>>
          IN  Becomes(ChunkResponse(Cur, cc, nid, bytes))
    /\ UNCHANGED <<repo, ctrl_cap, sensor_vars>>

\* get_device_sdr called on its own, against that controller.
RefusingNext ==
    \/ CallGetDeviceSdr
    \/ ReserveDeviceSdrRepository
    \/ GetDeviceSdrChunkRefusing

RefusingSpec == Init /\ [][RefusingNext]_vars

(***************************************************************************)
(* get_sensor_reading, set_sensor_thresholds and get_sensor_thresholds.    *)
(***************************************************************************)
\* An optional value: None, or the value in a one element sequence.
None == <<>>
Some(v) == <<v>>
ValueOf(o) == o[1]

RECURSIVE BitOr(_, _)
\* a | b on non-negative integers.
BitOr(a, b) ==
    IF a = 0 THEN b
    ELSE IF b = 0 THEN a
    ELSE (IF a % 2 = 1 \/ b % 2 = 1 THEN 1 ELSE 0)
            + 2 * BitOr(a \div 2, b \div 2)

RECURSIVE ShiftLeft(_, _)
\* a << n
ShiftLeft(a, n) == IF n = 0 THEN a ELSE ShiftLeft(2 * a, n - 1)

\* check_completion_code: a completion code other than success raises.
SensorRaises(cc) == [kind |-> "CompletionCodeError", cc |-> cc]
SensorReturns(v) == [kind |-> "returned", value |-> v]
\* `states |= ...` with states still None.
TypeError == [kind |-> "TypeError"]

\* get_sensor_reading, lines 229-240, on the response rsp.
get_sensor_reading(rsp) ==
    LET reading == IF rsp.config.initial_update_in_progress # 0 THEN None
                   ELSE Some(rsp.sensor_reading)
        states1 == IF rsp.states1 # None THEN rsp.states1 ELSE None
    IN  IF rsp.completion_code # CC_OK THEN SensorRaises(rsp.completion_code)
        ELSE IF rsp.states2 # None
        THEN IF states1 = None THEN TypeError
             ELSE SensorReturns(
                    <<reading,
                      Some(BitOr(ValueOf(states1),
                                 ShiftLeft(ValueOf(rsp.states2), 8)))>>)
        ELSE SensorReturns(<<reading, states1>>)

ThresholdNames == {"unr", "ucr", "unc", "lnc", "lcr", "lnr"}

\* create_request_by_name('SetSensorThresholds'): no set bit, no value.
FreshSetSensorThresholds ==
    [name |-> "SetSensorThresholds", sensor_number |-> 0, lun |-> 0,
     set_mask |-> [n \in ThresholdNames |-> 0],
     threshold |-> [n \in ThresholdNames |-> 0]]

\* One `if <name> is not None:` block of set_sensor_thresholds.
StoreThreshold(rq, n, arg) ==
    IF arg # None
    THEN [rq EXCEPT !.set_mask[n] = 1, !.threshold[n] = ValueOf(arg)]
    ELSE rq

\* SetSensorThresholdsReq with the lnc block writing the lcr fields.
SetSensorThresholdsReqCopyPaste(sensor_number, lun, args) ==
    LET r0 == [FreshSetSensorThresholds EXCEPT
                 !.sensor_number = sensor_number, !.lun = lun]
        r1 == StoreThreshold(r0, "unr", args.unr)
        r2 == StoreThreshold(r1, "ucr", args.ucr)
        r3 == StoreThreshold(r2, "unc", args.unc)
        r4 == StoreThreshold(r3, "lcr", args.lnc)
        r5 == StoreThreshold(r4, "lcr", args.lcr)
    IN  StoreThreshold(r5, "lnr", args.lnr)

\* set_sensor_thresholds, lines 254-274: the request that is sent.
SetSensorThresholdsReq(sensor_number, lun, args) ==
    LET r0 == [FreshSetSensorThresholds EXCEPT
                 !.sensor_number = sensor_number, !.lun = lun]
        r1 == StoreThreshold(r0, "unr", args.unr)
        r2 == StoreThreshold(r1, "ucr", args.ucr)
        r3 == StoreThreshold(r2, "unc", args.unc)
        r4 == StoreThreshold(r3, "lnc", args.lnc)
        r5 == StoreThreshold(r4, "lcr", args.lcr)
    IN  StoreThreshold(r5, "lnr", args.lnr)

\* thresholds[n] = v on a dict.
DictSet(d, k, v) == [x \in DOMAIN d \cup {k} |-> IF x = k THEN v ELSE d[x]]
EmptyDict == [x \in {} |-> 0]

\* One `if rsp.readable_mask.<name>:` block of get_sensor_thresholds.
ReadThreshold(d, rsp, n) ==
    IF rsp.readable_mask[n] # 0 THEN DictSet(d, n, rsp.threshold[n]) ELSE d

\* get_sensor_thresholds with the lcr block testing the lnc bit.
get_sensor_thresholds_wrong_bit(rsp) ==
    LET t0 == EmptyDict
        t1 == ReadThreshold(t0, rsp, "unr")
        t2 == ReadThreshold(t1, rsp, "ucr")
        t3 == ReadThreshold(t2, rsp, "unc")
        t4 == ReadThreshold(t3, rsp, "lnc")
        t5 == IF rsp.readable_mask["lnc"] # 0
              THEN DictSet(t4, "lcr", rsp.threshold["lcr"]) ELSE t4
        t6 == ReadThreshold(t5, rsp, "lnr")
    IN  IF rsp.completion_code # CC_OK THEN SensorRaises(rsp.completion_code)
        ELSE SensorReturns(t6)

\* get_sensor_thresholds, lines 283-297, on the response rsp.
get_sensor_thresholds(rsp) ==
    LET t0 == EmptyDict
        t1 == ReadThreshold(t0, rsp, "unr")
        t2 == ReadThreshold(t1, rsp, "ucr")
        t3 == ReadThreshold(t2, rsp, "unc")
        t4 == ReadThreshold(t3, rsp, "lnc")
        t5 == ReadThreshold(t4, rsp, "lcr")
        t6 == ReadThreshold(t5, rsp, "lnr")
    IN  IF rsp.completion_code # CC_OK THEN SensorRaises(rsp.completion_code)
        ELSE SensorReturns(t6)

\* The inputs the sensor operations are tried on.  The operations keep no
\* state, so each behaviour makes one call.
SensorNumbers == {1, 2}
Luns == {0, 1}
SensorCodes == {CC_OK, CC_OTHER}
ReadingBytes == {0, 127, 255}
States1Bytes == {None, Some(0), Some(5), Some(129)}
States2Bytes == {None, Some(0), Some(1), Some(128)}
ThresholdArgs == {None, Some(0), Some(80)}
ThresholdBytes == {10, 200}

GetSensorReading ==
    /\ sensor_call = NoSensorCall
    /\ \E n \in SensorNumbers, r \in ReadingBytes, u \in {0, 1},
          s1 \in States1Bytes, s2 \in States2Bytes, cc \in SensorCodes :
          LET rsp == [completion_code |-> cc, sensor_reading |-> r,
                      config |-> [initial_update_in_progress |-> u],
                      states1 |-> s1, states2 |-> s2]
          IN  /\ sensor_call' = [name |-> "get_sensor_reading",
                                 sensor_number |-> n, lun |-> 0, rsp |-> rsp]
              /\ sensor_req' = [name |-> "GetSensorReading",
                                sensor_number |-> n, lun |-> 0]
              /\ sensor_ret' = get_sensor_reading(rsp)
    /\ UNCHANGED sdr_vars

SetSensorThresholds ==
    /\ sensor_call = NoSensorCall
    /\ \E n \in SensorNumbers, l \in Luns, cc \in SensorCodes,
          args \in [ThresholdNames -> ThresholdArgs] :
          /\ sensor_call' = [name |-> "set_sensor_thresholds",
                             sensor_number |-> n, lun |-> l, args |-> args,
                             rsp |-> [completion_code |-> cc]]
          /\ sensor_req' = SetSensorThresholdsReq(n, l, args)
          /\ sensor_ret' = IF cc # CC_OK THEN SensorRaises(cc)
                           ELSE SensorReturns(None)
    /\ UNCHANGED sdr_vars

GetSensorThresholds ==
    /\ sensor_call = NoSensorCall
    /\ \E n \in SensorNumbers, cc \in SensorCodes,
          mask \in [ThresholdNames -> {0, 1}],
          values \in [ThresholdNames -> ThresholdBytes] :
          LET rsp == [completion_code |-> cc, readable_mask |-> mask,
                      threshold |-> values]
          IN  /\ sensor_call' = [name |-> "get_sensor_thresholds",
                                 sensor_number |-> n, lun |-> 0, rsp |-> rsp]
              /\ sensor_req' = [name |-> "GetSensorThresholds",
                                sensor_number |-> n, lun |-> 0]
              /\ sensor_ret' = get_sensor_thresholds(rsp)
    /\ UNCHANGED sdr_vars

SensorNext ==
    \/ GetSensorReading
    \/ SetSensorThresholds
    \/ GetSensorThresholds

SensorInit ==
    /\ InitSdr
    /\ InitSensor
    /\ repo = Repository(1, [id \in {0} |-> 0])
    /\ ctrl_cap = 0

SensorSpec == SensorInit /\ [][SensorNext]_vars

(***************************************************************************)
(* The claims.                                                             *)
(***************************************************************************)
RECURSIVE ChainFrom(_, _)
\* The record ids of the repository in chain order, from record id `id`.
ChainFrom(rp, id) ==
    IF id = LAST_RECORD_ID \/ id \notin DOMAIN rp THEN <<>>
    ELSE <<id>> \o ChainFrom(rp, rp[id].next_id)

Chain == ChainFrom(repo, FIRST_RECORD_ID)

\* C1: with a controller that serves a request of at most C bytes and refuses
\* a longer one, every buffer get_device_sdr hands to the record decoder is
\* the stored record, byte for byte (so it is exactly L bytes long).
C1_AssembledEqualsRecord ==
    s # NoRecord => s.data = StoredRecord(repo, HeaderRecordId(s.data))

\* C2: device_sdr_entries yields the records of the chain, one each and in
\* chain order, each with the next id the repository gives it; it ends after
\* the record whose next id is 0xFFFF, having yielded the whole chain; and no
\* GetDeviceSdr request, sent or about to be sent, asks for record 0xFFFF.
C2_EnumerationFollowsChain ==
    /\ req.record_id # LAST_RECORD_ID
    /\ last_req.record_id # LAST_RECORD_ID
    /\ op = "device_sdr_entries" =>
          /\ Len(yielded) <= Len(Chain)
          /\ \A i \in 1..Len(yielded) :
                /\ yielded[i].id = Chain[i]
                /\ yielded[i].next_id = repo[Chain[i]].next_id
          /\ (pc = "done" /\ result = Returned) =>
                /\ Len(yielded) = Len(Chain)
                /\ yielded[Len(yielded)].next_id = LAST_RECORD_ID
          /\ (Len(yielded) > 0 /\ pc \notin {"yield", "done"}) =>
                yielded[Len(yielded)].next_id # LAST_RECORD_ID

C2_Witness ==
    /\ op = "device_sdr_entries"
    /\ pc = "done"
    /\ result = Returned
    /\ Len(yielded) >= 2
    /\ yielded[Len(yielded)].next_id = LAST_RECORD_ID

\* C3: once the chunk cap of an assembly is 0 or less, the call has failed
\* with RetryError (so it sends no request of length 0 or less, and returns
\* no record, with such a cap).
C3_CapExhaustedRaisesRetryError ==
    (chunk_caller = "data" /\ max_req_len <= 0) =>
        (pc = "done" /\ result.kind = "RetryError")

\* C4: when a chunk fetch of get_device_sdr has ended in a CompletionCodeError
\* whose code is not "cannot return requested number of bytes", get_device_sdr
\* has failed with that CompletionCodeError, carrying the same code.
C4_OtherCompletionCodePropagates ==
    (chunk_exc.kind = "CompletionCodeError"
        /\ chunk_exc.cc # CC_CANT_RET_NUM_REQ_BYTES) =>
        (pc = "done" /\ result.kind = "CompletionCodeError"
            /\ result.cc = chunk_exc.cc)

Recoverable == {CC_RES_CANCELED, CC_TIMEOUT, CC_RESP_COULD_NOT_BE_PRV}

\* A step in which a GetDeviceSdr request is answered with code c.
ChunkAnswered(c) == pc = "chunk" /\ last_cc' = c

\* A step in which the reservation request that line 121 makes is answered.
ReservationAnswered == pc = "reserve" /\ reserve_caller = "chunk"

\* The chunk request is sent again, the same but for the reservation id,
\* which is the one just granted.
ResentWithNewReservation ==
    /\ pc' = "chunk"
    /\ granted' # req.reservation_id
    /\ req' = [req EXCEPT !.reservation_id = granted']
    /\ sent' = sent

ReferenceReading(rsp) ==
    <<IF rsp.config.initial_update_in_progress = 1 THEN None
      ELSE Some(rsp.sensor_reading),
      IF rsp.states1 = None THEN None
      ELSE IF rsp.states2 = None THEN rsp.states1
      ELSE Some(ValueOf(rsp.states1) + 256 * ValueOf(rsp.states2))>>

\* C7: get_sensor_reading returns, for every successful response, what the
\* reference decoder gives: reading absent when initial_update_in_progress is
\* set, states absent when states1 is absent, states1 alone or combined with
\* states2 shifted left by 8 otherwise.
C7_ReadingDecodedAsReference ==
    (sensor_call.name = "get_sensor_reading"
        /\ sensor_call.rsp.completion_code = CC_OK) =>
        sensor_ret = SensorReturns(ReferenceReading(sensor_call.rsp))

\* C8: in the request set_sensor_thresholds sends, a supplied threshold has
\* its set-mask bit 1 and its value field the supplied value; a threshold not
\* supplied has both as the freshly created request has them.
C8_OnlySuppliedThresholdsWritten ==
    sensor_call.name = "set_sensor_thresholds" =>
        /\ sensor_req.name = "SetSensorThresholds"
        /\ sensor_req.sensor_number = sensor_call.sensor_number
        /\ sensor_req.lun = sensor_call.lun
        /\ \A n \in ThresholdNames :
              IF sensor_call.args[n] # None
              THEN /\ sensor_req.set_mask[n] = 1
                   /\ sensor_req.threshold[n] = ValueOf(sensor_call.args[n])
              ELSE /\ sensor_req.set_mask[n] = FreshSetSensorThresholds.set_mask[n]
                   /\ sensor_req.threshold[n] = FreshSetSensorThresholds.threshold[n]

\* set_sensor_thresholds(sensor_number=1, ucr=80) has sent its request.
C8_Witness ==
    /\ sensor_call.name = "set_sensor_thresholds"
    /\ sensor_call.sensor_number = 1
    /\ sensor_call.args = [n \in ThresholdNames |->
                             IF n = "ucr" THEN Some(80) ELSE None]
    /\ sensor_req.set_mask = [n \in ThresholdNames |->
                                IF n = "ucr" THEN 1 ELSE 0]
    /\ sensor_req.threshold["ucr"] = 80

\* C9: for a successful response get_sensor_thresholds returns a mapping
\* whose keys are exactly the names with the readable bit set, each mapped to
\* that threshold's value in the response.
C9_OnlyReadableThresholdsReturned ==
    (sensor_call.name = "get_sensor_thresholds"
        /\ sensor_call.rsp.completion_code = CC_OK) =>
        /\ sensor_ret.kind = "returned"
        /\ DOMAIN sensor_ret.value =
              {n \in ThresholdNames : sensor_call.rsp.readable_mask[n] = 1}
        /\ \A n \in DOMAIN sensor_ret.value :
              sensor_ret.value[n] = sensor_call.rsp.threshold[n]

\* A response with readable mask {ucr, lcr} has been decoded to two keys.
C9_Witness ==
    /\ sensor_call.name = "get_sensor_thresholds"
    /\ sensor_call.rsp.completion_code = CC_OK
    /\ {n \in ThresholdNames : sensor_call.rsp.readable_mask[n] = 1}
          = {"ucr", "lcr"}
    /\ sensor_ret.kind = "returned"
    /\ DOMAIN sensor_ret.value = {"ucr", "lcr"}

\* C10: the raw record buffer is always a prefix of the record's bytes, in
\* order, and never longer than total_record_length = payload_length + 5.
C10_BufferIsPrefixOfRecord ==
    record_data # <<>> =>
        /\ record_length = repo[record_id].payload_length + HEADER_LENGTH
        /\ Len(record_data) <= record_length
        /\ record_data =
              Slice(StoredRecord(repo, record_id), 0, Len(record_data))

\* C11: after the header fetch the assembly loop of one get_device_sdr call
\* makes at most 20 calls of the chunk fetch (and so, with at most 5 requests
\* each, the call sends finitely many requests before it returns or raises).
C11_AtMostTwentyChunkCalls ==
    chunk_calls <= ASSEMBLY_RETRIES

\* C12: once a "reservation canceled" response has made the operation acquire
\* a new reservation, every GetDeviceSdr request it is about to send carries
\* the reservation id acquired last, never a superseded one.
C12_RequestsCarryNewestReservation ==
    (pc = "chunk" /\ granted > 1) => req.reservation_id = granted

\* C13: a response to a GetDeviceSdr request whose code is neither success
\* nor recoverable ends that chunk fetch at once with CompletionCodeError
\* carrying the code: no reservation request follows, and the operation has
\* either ended or entered a new chunk fetch that has sent nothing yet.
C13_OtherCodeFailsChunkFetchAtOnce ==
    [][\A c \in Codes \ (Recoverable \cup {CC_OK}) :
          ChunkAnswered(c) =>
             /\ chunk_exc' = CompletionCodeError(c, "_get_device_sdr_chunk")
             /\ pc' # "reserve"
             /\ \/ pc' \in {"done", "yield"}
                \/ /\ pc' = "chunk"
                   /\ chunk_caller = "data"
                   /\ chunk_calls' = chunk_calls + 1
                   /\ sent' = 0
      ]_vars

\* A header fetch has failed with CompletionCodeError on the code that
\* answered its third request, after two recoverable responses.
C13_Witness ==
    /\ pc = "done"
    /\ chunk_caller = "header"
    /\ sent = 3
    /\ last_cc = CC_OTHER
    /\ chunk_exc = CompletionCodeError(CC_OTHER, "_get_device_sdr_chunk")
    /\ result = chunk_exc

\* C14: a chunk fetch has raised RetryError only when 5 of its requests were
\* sent and answered (so after four recoverable responses a fifth request is
\* still sent, and its success would be returned).
C14_RetryErrorOnlyAfterFiveRequests ==
    chunk_exc = RetryError("_get_device_sdr_chunk") => sent >= CHUNK_RETRIES

\* C15 as stated: once a get_device_sdr call on the object has returned, the
\* maximum chunk length never goes up again: it is not reset for the next
\* record.
C15_MaxChunkLengthNeverReset ==
    [][Len(yielded) >= 1 => max_req_len' <= max_req_len]_vars

\* C15 as amended: every successful header fetch sets the maximum chunk
\* length to 20, and the first chunk request of the record is computed from
\* that cap; in every other step the maximum chunk length does not go up.
C15_MaxChunkLengthResetPerRecord ==
    [][IF ChunkAnswered(CC_OK) /\ chunk_caller = "header"
       THEN /\ max_req_len' = MAX_REQ_LEN
            /\ pc' = "chunk"
            /\ chunk_calls' = 1
            /\ req'.offset = HEADER_LENGTH
            /\ req'.length =
                  RequestLength(MAX_REQ_LEN, HEADER_LENGTH, record_length')
       ELSE max_req_len' <= max_req_len
      ]_vars

\* The first chunk request of the second record of an enumeration is about
\* to be sent with the cap at 20, after the first record was assembled with
\* a refused request (its buffer has not the stored record's length), which
\* had shrunk the cap.
C15_Witness ==
    /\ pc = "chunk"
    /\ chunk_caller = "data"
    /\ chunk_calls = 1
    /\ Len(yielded) = 1
    /\ yielded[1].len # repo[yielded[1].id].payload_length + HEADER_LENGTH
    /\ max_req_len = MAX_REQ_LEN
    /\ req.length = MAX_REQ_LEN

RecordReturned ==
    /\ pc = "chunk"
    /\ pc' = "yield" \/ (pc' = "done" /\ result' = Returned)

\* C17: the next record id get_device_sdr holds is the one the last successful
\* chunk fetch of the record reported (every successful fetch replaces it,
\* the header fetch's value included, and nothing else changes it); that is
\* the value handed to the decoder with the record, and the record
\* device_sdr_entries requests next.
C17_NextIdOfLastSuccessfulChunk ==
    [][/\ ChunkAnswered(CC_OK) => next_record_id' = RspNextRecordId(repo, req)
       /\ (pc = "chunk" /\ last_cc' # CC_OK) => next_record_id' = next_record_id
       /\ ReservationAnswered => next_record_id' = next_record_id
       /\ RecordReturned => s'.next_id = next_record_id'
       /\ (pc = "yield" /\ pc' # "done") =>
             (pc' = "chunk" /\ req'.record_id = next_record_id)
      ]_vars

\* A record has been returned with the next record id of its last chunk
\* fetch, which is not the one the header fetch reported.
C17_Witness ==
    /\ pc \in {"yield", "done"}
    /\ s # NoRecord
    /\ chunk_exc = Returned
    /\ last_req.offset > 0
    /\ s.next_id = repo[HeaderRecordId(s.data)].chunk_next_id
    /\ s.next_id # repo[HeaderRecordId(s.data)].next_id

\* C18 as stated: the decoded record's next id is the one the controller
\* reported on the header fetch (offset 0), and that is the record
\* device_sdr_entries requests next.
C18_LinkedByHeaderNextId ==
    s # NoRecord =>
        /\ s.next_id = repo[HeaderRecordId(s.data)].next_id
        /\ pc \in {"chunk", "reserve"} =>
              req.record_id = repo[HeaderRecordId(s.data)].next_id

\* C18 as amended: a record whose last chunk fetch succeeded has the next id
\* that fetch reported, whatever the header fetch reported; and the record
\* device_sdr_entries requests next is the decoded record's next id.
C18_LinkedByLastChunkNextId ==
    s # NoRecord =>
        /\ (pc \in {"yield", "done"} /\ result.kind \in {"none", "returned"}
               /\ chunk_exc = Returned) =>
              s.next_id = RspNextRecordId(repo, last_req)
        /\ pc \in {"chunk", "reserve"} => req.record_id = s.next_id

\* device_sdr_entries is requesting the record that the last chunk fetch of
\* the record before named, which is not the one its header fetch named.
C18_Witness ==
    /\ op = "device_sdr_entries"
    /\ pc = "chunk"
    /\ s # NoRecord
    /\ req.record_id = s.next_id
    /\ s.next_id = repo[HeaderRecordId(s.data)].chunk_next_id
    /\ s.next_id # repo[HeaderRecordId(s.data)].next_id

\* The response before, in the same chunk fetch, was "response could not be
\* provided": `slept` is the wait that followed it.
PreviousWasBusy ==
    /\ sent >= 1
    /\ last_req.name = "GetDeviceSdr"
    /\ last_cc = CC_RESP_COULD_NOT_BE_PRV

\* C19 as stated: the wait after a "response could not be provided" response
\* is 100 ms times the attempts remaining (5 less the requests the call has
\* sent), and is at least as long as the wait after the such response before.
C19_BusyWaitLengthens ==
    [][ChunkAnswered(CC_RESP_COULD_NOT_BE_PRV) =>
          /\ slept' = CHUNK_RETRIES - sent'
          /\ PreviousWasBusy => slept' >= slept
      ]_vars

\* C19 as amended: the wait after a "response could not be provided" response
\* is 100 ms times the attempts remaining, which is 5 less the requests the
\* call has sent: 400, 300, 200, 100 ms after the first to fourth request.
\* Each request sent uses up one attempt, so the wait is 100 ms shorter than
\* the wait after the such response before.
C19_BusyWaitShortens ==
    [][ChunkAnswered(CC_RESP_COULD_NOT_BE_PRV) =>
          /\ sent' = sent + 1
          /\ slept' = CHUNK_RETRIES - sent'
          /\ slept' \in 1..(CHUNK_RETRIES - 1)
          /\ PreviousWasBusy => slept' = slept - 1
      ]_vars

\* The second request of a chunk fetch was answered "response could not be
\* provided" like the first, and the wait was 300 ms.
C19_Witness ==
    /\ pc = "chunk"
    /\ sent = 2
    /\ chunk_retry = 2
    /\ PreviousWasBusy
    /\ slept = 3

\* C20: every GetDeviceSdr request that follows the header fetch asks for at
\* least 1 byte (so for a record of payload length 0 the header request is
\* the only one get_device_sdr sends).
C20_ChunkRequestsAskForBytes ==
    (pc = "chunk" /\ chunk_caller = "data") => req.length >= 1

====
